---- MODULE Spec2Model ----
(***************************************************************************)
(* Model of the serverless-auth-app Lambda handler                         *)
(* (src/backend/src/index.ts).  One invocation of `handler` is a short     *)
(* sequence of steps: log the event, parse the body, build the response,   *)
(* settle the promise.  JSON.parse, JSON.stringify and Date#toISOString    *)
(* are modelled by what they compute on texts of UTF-16 code units, so     *)
(* that the round trip request text -> value -> response text -> value     *)
(* is something the model checker evaluates.                               *)
(***************************************************************************)
EXTENDS Integers, Sequences, FiniteSets, TLC

(***************************************************************************)
(* Bounds of the model.                                                    *)
(***************************************************************************)
\* longest request body enumerated exhaustively over Alphabet
MaxBodyLen == 2
\* how often the clock advances
MaxClock == 2
\* how many HTTP calls are made to the API
MaxCalls == 2

(***************************************************************************)
(* Texts.  A text is a sequence of UTF-16 code units (naturals); CharCode   *)
(* gives the code unit of each character the model writes down.             *)
(***************************************************************************)
\* the printable ASCII characters, code units 32 to 126 in order (the grave
\* accent, which a TLA+ string cannot hold, by name)
Printable ==
    <<" ", "!", "\"", "#", "$", "%", "&", "'", "(", ")", "*", "+", ",", "-", ".", "/",
      "0", "1", "2", "3", "4", "5", "6", "7", "8", "9", ":", ";", "<", "=", ">", "?",
      "@", "A", "B", "C", "D", "E", "F", "G", "H", "I", "J", "K", "L", "M", "N", "O",
      "P", "Q", "R", "S", "T", "U", "V", "W", "X", "Y", "Z", "[", "\\", "]", "^", "_",
      "GRAVE", "a", "b", "c", "d", "e", "f", "g", "h", "i", "j", "k", "l", "m", "n", "o",
      "p", "q", "r", "s", "t", "u", "v", "w", "x", "y", "z", "{", "|", "}", "~">>

\* the code unit of each printable character (a tabulated function)
CharCode ==
    [c \in {Printable[i] : i \in 1..Len(Printable)} |->
        31 + CHOOSE i \in 1..Len(Printable) : Printable[i] = c] @@ <<>>

Ch(c) == CharCode[c]

\* the control characters that have a short JSON escape
Ctl == [BS |-> 8, TAB |-> 9, LF |-> 10, FF |-> 12, CR |-> 13]

\* the text spelled by a tuple of printable characters
Txt(s) == <<>> \o [i \in 1..Len(s) |-> CharCode[s[i]]]

IsDigit(c) == c >= 48 /\ c <= 57

DigitVal(c) == c - 48

DigitChar(d) == d + 48

IsHex(c) == IsDigit(c) \/ (c >= 97 /\ c <= 102) \/ (c >= 65 /\ c <= 70)

HexVal(c) == IF IsDigit(c) THEN c - 48 ELSE IF c >= 97 THEN c - 87 ELSE c - 55

HexChar(d) == IF d < 10 THEN d + 48 ELSE d + 87

\* JSON whitespace: space, tab, line feed, carriage return
IsWs(c) == c \in {32, Ctl.TAB, Ctl.LF, Ctl.CR}

RECURSIVE Zeros(_)
Zeros(n) == IF n <= 0 THEN <<>> ELSE <<0>> \o Zeros(n - 1)

\* Op applied to the value of v, v being evaluated once
With(v, Op(_)) == CHOOSE y \in {Op(x) : x \in {v}} : TRUE

\* ss[lo] \o ... \o ss[hi], by halves
RECURSIVE FlattenRange(_, _, _)
FlattenRange(ss, lo, hi) ==
    IF lo > hi THEN <<>>
    ELSE IF lo = hi THEN ss[lo]
    ELSE FlattenRange(ss, lo, (lo + hi) \div 2) \o FlattenRange(ss, (lo + hi) \div 2 + 1, hi)

Flatten(ss) == FlattenRange(ss, 1, Len(ss))

\* ss[1] sep ss[2] sep ... ss[n]
Join(ss, sep) == Flatten([i \in 1..Len(ss) |-> IF i = 1 THEN ss[i] ELSE sep \o ss[i]])

(***************************************************************************)
(* JavaScript values, as far as JSON reaches them.                         *)
(***************************************************************************)
JUndefined == [t |-> "undefined"]

JNull == [t |-> "null"]

JBool(b) == [t |-> "bool", b |-> b]

\* A finite Number: sign, significant decimal digits ds (no leading or
\* trailing zero) and n with |value| = 0.ds * 10^n; zero has ds = <<>>.
JNum(neg, ds, n) == [t |-> "num", neg |-> neg, ds |-> ds, n |-> n]

\* +Infinity / -Infinity
JInf(neg) == [t |-> "inf", neg |-> neg]

JStr(s) == [t |-> "str", s |-> s]

JArr(a) == [t |-> "arr", a |-> a]

\* an object: its own enumerable string-keyed properties in enumeration
\* order, each <<key, value>>
JObj(m) == [t |-> "obj", m |-> m]

(***************************************************************************)
(* Numbers.  JSON.parse reads a decimal numeral into an IEEE-754 double    *)
(* and JSON.stringify writes a double with Number::toString.  For          *)
(* numerals of at most 15 significant digits whose magnitude is not        *)
(* subnormal the double is written back with the same digits, so the       *)
(* value is kept as its digits and decimal exponent; beyond the double     *)
(* range the numeral reads as Infinity, below it as zero.                  *)
(***************************************************************************)
\* leading digits of 2^1024 - 2^970, the least magnitude that rounds to
\* Infinity, as 0.OverflowDigits * 10^OverflowExp
OverflowDigits == <<1, 7, 9, 7, 6, 9, 3, 1, 3, 4, 8, 6, 2, 3, 1, 5, 8, 0, 7, 9>>

OverflowExp == 309

\* decimal exponent n below which 0.ds * 10^n rounds to zero
UnderflowExp == -323

\* 0.a < 0.b for digit sequences a, b
RECURSIVE FracLess(_, _)
FracLess(a, b) ==
    IF b = <<>> THEN FALSE
    ELSE IF a = <<>> THEN \E i \in 1..Len(b) : b[i] # 0
    ELSE IF a[1] # b[1] THEN a[1] < b[1]
    ELSE FracLess(Tail(a), Tail(b))

RECURSIVE StripLeadingZeros(_)
StripLeadingZeros(ds) ==
    IF ds # <<>> /\ ds[1] = 0 THEN StripLeadingZeros(Tail(ds)) ELSE ds

RECURSIVE StripTrailingZeros(_)
StripTrailingZeros(ds) ==
    IF ds # <<>> /\ ds[Len(ds)] = 0
    THEN StripTrailingZeros(SubSeq(ds, 1, Len(ds) - 1))
    ELSE ds

\* the Number denoted by sign, integer digits, fraction digits and exponent
ToNumber(neg, intDs, fracDs, e) ==
    LET all  == intDs \o fracDs
        lead == StripLeadingZeros(all)
        n    == Len(intDs) + e - (Len(all) - Len(lead))
        ds   == StripTrailingZeros(lead)
    IN  IF ds = <<>> THEN JNum(neg, <<>>, 0)
        ELSE IF n > OverflowExp \/ (n = OverflowExp /\ ~FracLess(ds, OverflowDigits))
             THEN JInf(neg)
        ELSE IF n < UnderflowExp THEN JNum(neg, <<>>, 0)
        ELSE JNum(neg, ds, n)

\* decimal digits of a natural number
RECURSIVE NatDigits(_)
NatDigits(k) == IF k < 10 THEN <<k>> ELSE NatDigits(k \div 10) \o <<k % 10>>

RECURSIVE DigitsValue(_)
DigitsValue(ds) ==
    IF ds = <<>> THEN 0 ELSE DigitsValue(SubSeq(ds, 1, Len(ds) - 1)) * 10 + ds[Len(ds)]

DigitText(ds) == [i \in 1..Len(ds) |-> DigitChar(ds[i])]

\* Number::toString of a finite Number (ECMA-262 6.1.6.1.20)
NumberToString(v) ==
    LET k == Len(v.ds)
        n == v.n
        e == n - 1
        mag ==
            IF k = 0 THEN Txt(<<"0">>)
            ELSE IF k <= n /\ n <= 21 THEN DigitText(v.ds \o Zeros(n - k))
            ELSE IF 0 < n /\ n <= 21
                 THEN DigitText(SubSeq(v.ds, 1, n)) \o Txt(<<".">>)
                      \o DigitText(SubSeq(v.ds, n + 1, k))
            ELSE IF 0 - 6 < n /\ n <= 0
                 THEN Txt(<<"0", ".">>) \o DigitText(Zeros(0 - n) \o v.ds)
            ELSE (IF k = 1 THEN DigitText(v.ds)
                  ELSE DigitText(<<v.ds[1]>>) \o Txt(<<".">>) \o DigitText(Tail(v.ds)))
                 \o Txt(<<"e">>)
                 \o (IF e < 0 THEN Txt(<<"-">>) ELSE Txt(<<"+">>))
                 \o DigitText(NatDigits(IF e < 0 THEN 0 - e ELSE e))
    IN  IF v.neg /\ k > 0 THEN Txt(<<"-">>) \o mag ELSE mag

(***************************************************************************)
(* Objects.  Property lookup, and property creation in the order           *)
(* OrdinaryOwnPropertyKeys enumerates: array-index keys ascending, then    *)
(* the other keys in creation order.                                       *)
(***************************************************************************)
\* digits of 2^32 - 2, the largest array index
MaxIndexDigits == <<4, 2, 9, 4, 9, 6, 7, 2, 9, 4>>

\* a < b for canonical numerals (digit sequences without leading zero)
NumeralLess(a, b) ==
    \/ Len(a) < Len(b)
    \/ /\ Len(a) = Len(b)
       /\ \E i \in 1..Len(a) :
            /\ a[i] < b[i]
            /\ \A j \in 1..(i - 1) : a[j] = b[j]

KeyDigits(k) == [i \in 1..Len(k) |-> DigitVal(k[i])]

IsArrayIndex(k) ==
    /\ k # <<>>
    /\ \A i \in 1..Len(k) : IsDigit(k[i])
    /\ (Len(k) = 1 \/ k[1] # Ch("0"))
    /\ ~NumeralLess(MaxIndexDigits, KeyDigits(k))

HasOwn(o, k) == \E i \in 1..Len(o.m) : o.m[i][1] = k

\* o[k], or undefined when k is no own property (the prototype chain of a
\* plain object holds no data property the handler reads)
Get(o, k) ==
    IF HasOwn(o, k)
    THEN o.m[CHOOSE i \in 1..Len(o.m) : o.m[i][1] = k][2]
    ELSE JUndefined

\* number of properties of m that are enumerated before a new key k
InsertAt(m, k) ==
    IF IsArrayIndex(k)
    THEN Cardinality({i \in 1..Len(m) :
            IsArrayIndex(m[i][1]) /\ NumeralLess(KeyDigits(m[i][1]), KeyDigits(k))})
    ELSE Len(m)

\* CreateDataProperty(o, k, v)
Put(o, k, v) ==
    With(<<o.m, k, v>>, LAMBDA a :
        IF \E i \in 1..Len(a[1]) : a[1][i][1] = a[2]
        THEN JObj([i \in 1..Len(a[1]) |->
                    IF a[1][i][1] = a[2] THEN <<a[2], a[3]>> ELSE a[1][i]])
        ELSE With(InsertAt(a[1], a[2]), LAMBDA at :
                JObj(SubSeq(a[1], 1, at) \o <<<<a[2], a[3]>>>>
                     \o SubSeq(a[1], at + 1, Len(a[1])))))

Keys(o) == {o.m[i][1] : i \in 1..Len(o.m)}

(***************************************************************************)
(* JSON.parse (ECMA-262 25.5.1, ECMA-404 grammar): a recursive-descent     *)
(* reader.  Each reader returns [ok, val, next]: whether a value starts    *)
(* at position i of text t, the value, and the position after it.          *)
(***************************************************************************)
ParseFail == [ok |-> FALSE, val |-> JUndefined, next |-> 0]

ParseOk(v, j) == [ok |-> TRUE, val |-> v, next |-> j]

RECURSIVE SkipWs(_, _)
SkipWs(t, i) == IF i <= Len(t) /\ IsWs(t[i]) THEN SkipWs(t, i + 1) ELSE i

\* the first position at or after i that holds no digit
RECURSIVE DigitsEnd(_, _)
DigitsEnd(t, i) == IF i <= Len(t) /\ IsDigit(t[i]) THEN DigitsEnd(t, i + 1) ELSE i

HasDigitAt(t, i) == i <= Len(t) /\ IsDigit(t[i])

Slice(t, i, j) == [x \in 1..(j - i) |-> t[i + x - 1]]

Matches(t, i, w) == i + Len(w) - 1 <= Len(t) /\ Slice(t, i, i + Len(w)) = w

\* exponents of more than 6 digits are all out of the double range
CapExp(ds) == IF Len(StripLeadingZeros(ds)) > 6 THEN 999999 ELSE DigitsValue(ds)

\* a numeral starts at i: sign, integer part from s, then fraction and
\* exponent; each reader hands the positions found so far to the next
NumValue(t, i, s, intEnd, fracEnd, e, end) ==
    ParseOk(ToNumber(t[i] = Ch("-"),
                     KeyDigits(Slice(t, s, intEnd)),
                     IF fracEnd > intEnd THEN KeyDigits(Slice(t, intEnd + 1, fracEnd))
                     ELSE <<>>,
                     e),
            end)

NumExpDigits(t, i, s, intEnd, fracEnd, expNeg, expFrom) ==
    IF ~HasDigitAt(t, expFrom) THEN ParseFail
    ELSE NumValue(t, i, s, intEnd, fracEnd,
                  IF expNeg THEN 0 - CapExp(KeyDigits(Slice(t, expFrom, DigitsEnd(t, expFrom))))
                  ELSE CapExp(KeyDigits(Slice(t, expFrom, DigitsEnd(t, expFrom)))),
                  DigitsEnd(t, expFrom))

NumExp(t, i, s, intEnd, fracEnd) ==
    IF fracEnd <= Len(t) /\ t[fracEnd] \in {Ch("e"), Ch("E")}
    THEN IF fracEnd + 1 <= Len(t) /\ t[fracEnd + 1] \in {Ch("+"), Ch("-")}
         THEN NumExpDigits(t, i, s, intEnd, fracEnd, t[fracEnd + 1] = Ch("-"), fracEnd + 2)
         ELSE NumExpDigits(t, i, s, intEnd, fracEnd, FALSE, fracEnd + 1)
    ELSE NumValue(t, i, s, intEnd, fracEnd, 0, fracEnd)

NumFrac(t, i, s, intEnd) ==
    IF intEnd <= Len(t) /\ t[intEnd] = Ch(".")
    THEN IF HasDigitAt(t, intEnd + 1)
         THEN NumExp(t, i, s, intEnd, DigitsEnd(t, intEnd + 1))
         ELSE ParseFail
    ELSE NumExp(t, i, s, intEnd, intEnd)

NumInt(t, i, s) ==
    IF ~HasDigitAt(t, s) THEN ParseFail
    ELSE NumFrac(t, i, s, IF t[s] = Ch("0") THEN s + 1 ELSE DigitsEnd(t, s))

ParseNumber(t, i) == NumInt(t, i, IF t[i] = Ch("-") THEN i + 1 ELSE i)

\* the code unit a one-character escape \c stands for
SimpleEscape ==
    Ch("\"") :> Ch("\"") @@ Ch("\\") :> Ch("\\") @@ Ch("/") :> Ch("/") @@
    Ch("b") :> Ctl.BS @@ Ch("f") :> Ctl.FF @@ Ch("n") :> Ctl.LF @@
    Ch("r") :> Ctl.CR @@ Ch("t") :> Ctl.TAB

\* the number of consecutive backslashes that end just before position j,
\* none of them before position lo
BackslashRun(t, lo, j) ==
    CHOOSE n \in 0..(j - lo) :
        /\ \A y \in (j - n)..(j - 1) : t[y] = Ch("\\")
        /\ n = j - lo \/ t[j - n - 1] # Ch("\\")

\* position k holds the backslash that opens an escape, in a literal whose
\* characters start at lo
OpensEscape(t, lo, k) == t[k] = Ch("\\") /\ BackslashRun(t, lo, k) % 2 = 0

\* position k holds the letter of an escape
IsEscapeLetter(t, lo, k) == k > lo /\ OpensEscape(t, lo, k - 1)

\* position k holds one of the four digits of a \u escape
IsEscapeDigit(t, lo, k) ==
    \E d \in 1..4 : k - d > lo /\ IsEscapeLetter(t, lo, k - d) /\ t[k - d] = Ch("u")

\* the characters lo .. hi-1 of a literal are well formed
CharsOk(t, lo, hi) ==
    \A k \in lo..(hi - 1) :
        IF OpensEscape(t, lo, k) THEN k + 1 < hi
        ELSE IF IsEscapeLetter(t, lo, k)
             THEN \/ t[k] \in DOMAIN SimpleEscape
                  \/ /\ t[k] = Ch("u")
                     /\ k + 4 < hi
                     /\ \A x \in 1..4 : IsHex(t[k + x])
        ELSE t[k] >= 32

\* the code units the character at position k contributes to the value
CharAt(t, lo, k) ==
    IF OpensEscape(t, lo, k) \/ IsEscapeDigit(t, lo, k) THEN <<>>
    ELSE IF IsEscapeLetter(t, lo, k)
         THEN IF t[k] = Ch("u")
              THEN <<HexVal(t[k + 1]) * 4096 + HexVal(t[k + 2]) * 256
                     + HexVal(t[k + 3]) * 16 + HexVal(t[k + 4])>>
              ELSE <<SimpleEscape[t[k]]>>
    ELSE <<t[k]>>

\* position j holds a quote that is not escaped, in a literal whose
\* characters start at lo
IsClosingQuote(t, lo, j) == t[j] = Ch("\"") /\ BackslashRun(t, lo, j) % 2 = 0

\* the literal whose characters are lo .. hi-1, the closing quote being at hi
StringValue(t, lo, hi) ==
    IF CharsOk(t, lo, hi)
    THEN ParseOk(JStr(Flatten([x \in 1..(hi - lo) |-> CharAt(t, lo, lo + x - 1)])), hi + 1)
    ELSE ParseFail

\* a string literal whose opening quote is at position i: it ends at the
\* first quote that is not escaped
ParseString(t, i) ==
    IF \E j \in (i + 1)..Len(t) : IsClosingQuote(t, i + 1, j)
    THEN With(CHOOSE j \in (i + 1)..Len(t) :
                  /\ IsClosingQuote(t, i + 1, j)
                  /\ \A x \in (i + 1)..(j - 1) : ~IsClosingQuote(t, i + 1, x),
              LAMBDA hi : StringValue(t, i + 1, hi))
    ELSE ParseFail

RECURSIVE ParseValue(_, _)
RECURSIVE ParseElements(_, _, _)
RECURSIVE ParseMembers(_, _, _)

\* what follows an array element r, acc being the elements before it
AfterElement(t, r, k, acc) ==
    IF k > Len(t) THEN ParseFail
    ELSE IF t[k] = Ch(",") THEN ParseElements(t, SkipWs(t, k + 1), Append(acc, r.val))
    ELSE IF t[k] = Ch("]") THEN ParseOk(JArr(Append(acc, r.val)), k + 1)
    ELSE ParseFail

\* array elements from position i (a value starts here), acc read so far
ParseElements(t, i, acc) ==
    With(<<i, acc>>, LAMBDA a :
        With(ParseValue(t, a[1]), LAMBDA r :
            IF ~r.ok THEN ParseFail
            ELSE With(SkipWs(t, r.next), LAMBDA k : AfterElement(t, r, k, a[2]))))

\* what follows an object member, o being the object with that member
AfterMember(t, k, o) ==
    IF k > Len(t) THEN ParseFail
    ELSE IF t[k] = Ch(",") THEN ParseMembers(t, SkipWs(t, k + 1), o)
    ELSE IF t[k] = Ch("}") THEN ParseOk(o, k + 1)
    ELSE ParseFail

\* the value of a member whose key has been read, o being the object so far
MemberValue(t, key, colon, o) ==
    IF colon > Len(t) \/ t[colon] # Ch(":") THEN ParseFail
    ELSE With(ParseValue(t, SkipWs(t, colon + 1)), LAMBDA r :
            IF ~r.ok THEN ParseFail
            ELSE With(<<SkipWs(t, r.next), Put(o, key.val.s, r.val)>>, LAMBDA a :
                    AfterMember(t, a[1], a[2])))

\* object members from position i (a key starts here), o built so far
ParseMembers(t, i, o) ==
    With(<<i, o>>, LAMBDA a :
        IF a[1] > Len(t) \/ t[a[1]] # Ch("\"") THEN ParseFail
        ELSE With(ParseString(t, a[1]), LAMBDA key :
                IF ~key.ok THEN ParseFail
                ELSE With(SkipWs(t, key.next), LAMBDA colon :
                        MemberValue(t, key, colon, a[2]))))

ParseValue(t, i) ==
    IF i > Len(t) THEN ParseFail
    ELSE IF t[i] = Ch("{")
         THEN With(SkipWs(t, i + 1), LAMBDA j :
                IF j <= Len(t) /\ t[j] = Ch("}") THEN ParseOk(JObj(<<>>), j + 1)
                ELSE ParseMembers(t, j, JObj(<<>>)))
    ELSE IF t[i] = Ch("[")
         THEN With(SkipWs(t, i + 1), LAMBDA j :
                IF j <= Len(t) /\ t[j] = Ch("]") THEN ParseOk(JArr(<<>>), j + 1)
                ELSE ParseElements(t, j, <<>>))
    ELSE IF t[i] = Ch("\"") THEN ParseString(t, i)
    ELSE IF t[i] = Ch("-") \/ IsDigit(t[i]) THEN ParseNumber(t, i)
    ELSE IF Matches(t, i, Txt(<<"n", "u", "l", "l">>)) THEN ParseOk(JNull, i + 4)
    ELSE IF Matches(t, i, Txt(<<"t", "r", "u", "e">>)) THEN ParseOk(JBool(TRUE), i + 4)
    ELSE IF Matches(t, i, Txt(<<"f", "a", "l", "s", "e">>)) THEN ParseOk(JBool(FALSE), i + 5)
    ELSE ParseFail

\* JSON.parse(text): the whole text is one value between optional
\* whitespace; anything else throws SyntaxError
ParseText(t) ==
    With(t, LAMBDA text :
        With(ParseValue(text, SkipWs(text, 1)), LAMBDA r :
            IF r.ok /\ SkipWs(text, r.next) = Len(text) + 1 THEN r ELSE ParseFail))

(***************************************************************************)
(* JSON.stringify (ECMA-262 25.5.2), with the indentation argument `gap`   *)
(* (the empty text for the compact form).                                  *)
(***************************************************************************)
IsHighSurrogate(c) == c >= 55296 /\ c <= 56319

IsLowSurrogate(c) == c >= 56320 /\ c <= 57343

UnicodeEscape(c) ==
    Txt(<<"\\", "u">>)
    \o <<HexChar(c \div 4096), HexChar((c \div 256) % 16),
         HexChar((c \div 16) % 16), HexChar(c % 16)>>

\* s[i] is half of a surrogate pair
InPair(s, i) ==
    \/ IsHighSurrogate(s[i]) /\ i < Len(s) /\ IsLowSurrogate(s[i + 1])
    \/ IsLowSurrogate(s[i]) /\ i > 1 /\ IsHighSurrogate(s[i - 1])

\* what QuoteJSONString writes for s[i]
QuoteAt(s, i) ==
    LET c == s[i]
    IN  IF c = Ch("\"") THEN Txt(<<"\\", "\"">>)
        ELSE IF c = Ch("\\") THEN Txt(<<"\\", "\\">>)
        ELSE IF c = Ctl.BS THEN Txt(<<"\\", "b">>)
        ELSE IF c = Ctl.FF THEN Txt(<<"\\", "f">>)
        ELSE IF c = Ctl.LF THEN Txt(<<"\\", "n">>)
        ELSE IF c = Ctl.CR THEN Txt(<<"\\", "r">>)
        ELSE IF c = Ctl.TAB THEN Txt(<<"\\", "t">>)
        ELSE IF c < 32 THEN UnicodeEscape(c)
        ELSE IF (IsHighSurrogate(c) \/ IsLowSurrogate(c)) /\ ~InPair(s, i)
             THEN UnicodeEscape(c)
        ELSE <<c>>

\* QuoteJSONString
Quote(s) ==
    Txt(<<"\"">>) \o Flatten([i \in 1..Len(s) |-> QuoteAt(s, i)]) \o Txt(<<"\"">>)

SelectProps(m) == SelectSeq(m, LAMBDA p : p[2].t # "undefined")

\* SerializeJSONProperty of a value that is not undefined; ind is the
\* current indentation
RECURSIVE Serialize(_, _, _)
Serialize(v, ind, gap) ==
    LET step  == ind \o gap
        open  == IF gap = <<>> THEN <<>> ELSE <<Ctl.LF>> \o step
        sep   == IF gap = <<>> THEN Txt(<<",">>) ELSE Txt(<<",">>) \o <<Ctl.LF>> \o step
        close == IF gap = <<>> THEN <<>> ELSE <<Ctl.LF>> \o ind
        colon == IF gap = <<>> THEN Txt(<<":">>) ELSE Txt(<<":", " ">>)
    IN  CASE v.t = "null" -> Txt(<<"n", "u", "l", "l">>)
          [] v.t = "bool" -> IF v.b THEN Txt(<<"t", "r", "u", "e">>)
                             ELSE Txt(<<"f", "a", "l", "s", "e">>)
          [] v.t = "num"  -> NumberToString(v)
          [] v.t = "inf"  -> Txt(<<"n", "u", "l", "l">>)
          [] v.t = "str"  -> Quote(v.s)
          [] v.t = "arr"  ->
                IF v.a = <<>> THEN Txt(<<"[", "]">>)
                ELSE Txt(<<"[">>) \o open
                     \o Join([i \in 1..Len(v.a) |->
                                IF v.a[i].t = "undefined" THEN Txt(<<"n", "u", "l", "l">>)
                                ELSE Serialize(v.a[i], step, gap)], sep)
                     \o close \o Txt(<<"]">>)
          [] v.t = "obj"  ->
                LET ps == SelectProps(v.m)
                IN  IF ps = <<>> THEN Txt(<<"{", "}">>)
                    ELSE Txt(<<"{">>) \o open
                         \o Join([i \in 1..Len(ps) |->
                                    Quote(ps[i][1]) \o colon
                                    \o Serialize(ps[i][2], step, gap)], sep)
                         \o close \o Txt(<<"}">>)

\* JSON.stringify(v) for a v that is not undefined
JSONstringify(v) == Serialize(v, <<>>, <<>>)

\* JSON.stringify(v, null, 2)
JSONstringifyIndented(v) == Serialize(v, <<>>, Txt(<<" ", " ">>))

(***************************************************************************)
(* Date#toISOString for the clock readings of the model: milliseconds      *)
(* since the epoch, all within January 1970.                               *)
(***************************************************************************)
Pad2(k) == DigitText(<<k \div 10, k % 10>>)

Pad3(k) == DigitText(<<k \div 100, (k \div 10) % 10, k % 10>>)

toISOString(ms) ==
    LET day == ms \div 86400000
        rem == ms % 86400000
    IN  Txt(<<"1", "9", "7", "0", "-", "0", "1", "-">>) \o Pad2(day + 1)
        \o Txt(<<"T">>) \o Pad2(rem \div 3600000)
        \o Txt(<<":">>) \o Pad2((rem \div 60000) % 60)
        \o Txt(<<":">>) \o Pad2((rem \div 1000) % 60)
        \o Txt(<<".">>) \o Pad3(rem % 1000)
        \o Txt(<<"Z">>)

(***************************************************************************)
(* The inputs of an invocation.                                            *)
(***************************************************************************)
\* characters of the exhaustively enumerated request bodies
Alphabet == {Ch(c) : c \in {"{", "}", "\"", "0", "1", " "}}

RECURSIVE TextsUpTo(_)
TextsUpTo(n) ==
    IF n = 0 THEN {<<>>}
    ELSE LET shorter == TextsUpTo(n - 1)
         IN  shorter \cup {Append(t, c) : t \in {x \in shorter : Len(x) = n - 1},
                                          c \in Alphabet}

\* longer request bodies: the scenarios of the specification and bodies
\* that exercise members, escapes, nesting and the number range
SampleBodies ==
    { Txt(<<"{", "\"", "x", "\"", ":", "1", "}">>),
      Txt(<<"n", "o", "t", "-", "j", "s", "o", "n">>),
      Txt(<<"n", "u", "l", "l">>),
      Txt(<<"f", "a", "l", "s", "e">>),
      Txt(<<"[", "1", ",", "\"", "a", "\"", "]">>),
      Txt(<<"{", "\"", "a", "\"", ":", "1", ",", "\"", "a", "\"", ":", "2", "}">>),
      Txt(<<"{", "\"", "b", "\"", ":", "[", "]", ",", "\"", "1", "\"", ":", "{", "}", "}">>),
      Txt(<<"\"", "a", "\\", "\"", "\\", "u", "0", "0", "0", "1", "\"">>),
      Txt(<<" ", "{", "}">>) \o <<Ctl.LF>>,
      Txt(<<"-", "1", ".", "5", "e", "-", "7">>),
      Txt(<<"1", "e", "4", "0", "0">>),
      Txt(<<"{", "\"", "x", "\"", ":", "1">>) }

Bodies == TextsUpTo(MaxBodyLen) \cup SampleBodies

\* event.body: a string, null, or no such property
BodyValues == {JUndefined, JNull} \cup {JStr(t) : t \in Bodies}

Key(s) == Txt(s)

kBody == Key(<<"b", "o", "d", "y">>)

kMessage == Key(<<"m", "e", "s", "s", "a", "g", "e">>)

kTimestamp == Key(<<"t", "i", "m", "e", "s", "t", "a", "m", "p">>)

kRequestId == Key(<<"r", "e", "q", "u", "e", "s", "t", "I", "d">>)

kAwsRequestId == Key(<<"a", "w", "s", "R", "e", "q", "u", "e", "s", "t", "I", "d">>)

kHttpMethod == Key(<<"h", "t", "t", "p", "M", "e", "t", "h", "o", "d">>)

kPath == Key(<<"p", "a", "t", "h">>)

\* an APIGatewayProxyEvent of a GET / request carrying body b
MakeEvent(b) ==
    LET base == JObj(<< <<kHttpMethod, JStr(Txt(<<"G", "E", "T">>))>>,
                        <<kPath, JStr(Txt(<<"/">>))>> >>)
    IN  IF b.t = "undefined" THEN base ELSE Put(base, kBody, b)

kHeaders == Key(<<"h", "e", "a", "d", "e", "r", "s">>)

kQueryStringParameters ==
    Key(<<"q", "u", "e", "r", "y", "S", "t", "r", "i", "n", "g",
          "P", "a", "r", "a", "m", "e", "t", "e", "r", "s">>)

kRequestContext ==
    Key(<<"r", "e", "q", "u", "e", "s", "t", "C", "o", "n", "t", "e", "x", "t">>)

\* an APIGatewayProxyEvent of a POST /items request with a header, a query
\* string and a request context, carrying body b
MakePostEvent(b) ==
    LET base == JObj(<< <<kHttpMethod, JStr(Txt(<<"P", "O", "S", "T">>))>>,
                        <<kPath, JStr(Txt(<<"/", "i", "t", "e", "m", "s">>))>>,
                        <<kHeaders,
                          JObj(<< <<Key(<<"x", "-", "a">>), JStr(Txt(<<"1">>))>> >>)>>,
                        <<kQueryStringParameters,
                          JObj(<< <<Key(<<"q">>), JStr(Txt(<<"0">>))>> >>)>>,
                        <<kRequestContext,
                          JObj(<< <<Key(<<"s", "t", "a", "g", "e">>),
                                    JStr(Txt(<<"p", "r", "o", "d">>))>> >>)>> >>)
    IN  IF b.t = "undefined" THEN base ELSE Put(base, kBody, b)

\* an event with no field but body, as a test passes it
MakeBareEvent(b) == IF b.t = "undefined" THEN JObj(<<>>) ELSE JObj(<< <<kBody, b>> >>)

\* the bodies carried by the events of the other shapes
OtherShapeBodies ==
    { JUndefined,
      JStr(Txt(<<"{", "\"", "x", "\"", ":", "1", "}">>)),
      JStr(Txt(<<"n", "o", "t", "-", "j", "s", "o", "n">>)) }

Events ==
    {MakeEvent(b) : b \in BodyValues}
    \cup {MakePostEvent(b) : b \in OtherShapeBodies}
    \cup {MakeBareEvent(b) : b \in OtherShapeBodies}

RequestIds == { Txt(<<"a", "b", "c", "-", "1", "2", "3">>), Txt(<<"r", "\"", "2">>) }

\* the Lambda context, or the empty context of the local Express wrapper
Contexts == {JObj(<< <<kAwsRequestId, JStr(r)>> >>) : r \in RequestIds} \cup {JObj(<<>>)}

kFunctionName == Key(<<"f", "u", "n", "c", "t", "i", "o", "n", "N", "a", "m", "e">>)

\* a Lambda context with a field beside awsRequestId
NamedContext ==
    JObj(<< <<kAwsRequestId, JStr(Txt(<<"a", "b", "c", "-", "1", "2", "3">>))>>,
            <<kFunctionName, JStr(Txt(<<"h", "e", "l", "l", "o">>))>> >>)

\* the arguments of the invocations: every event with every context, and
\* the POST events with the named context as well
Arguments ==
    {<<e, c>> : e \in Events, c \in Contexts}
    \cup {<<MakePostEvent(b), NamedContext>> : b \in OtherShapeBodies}

(***************************************************************************)
(* The handler (src/backend/src/index.ts) as a state machine.              *)
(***************************************************************************)
VARIABLES
    pc,         \* where the current invocation stands
    event,      \* its event argument
    context,    \* its context argument
    body,       \* the local `body` (line 8)
    response,   \* the object the handler returns (lines 11-23)
    error,      \* the exception thrown inside the handler, if any
    outcome,    \* how the promise the caller holds has settled
    decoded,    \* what the caller reads from the body of a returned result
    console,    \* the lines console.log has written for this invocation
    clock,      \* the system clock, in milliseconds
    ticks,      \* how often the clock has advanced
    startTime,  \* the clock when the invocation began
    endTime,    \* the clock when its promise settled
    calls,      \* the HTTP calls made to the API, each with its invocation
    frames      \* the locals of the handler, one activation per invocation

vars == <<pc, event, context, body, response, error, outcome, decoded, console,
          clock, ticks, startTime, endTime, calls, frames>>

NoResponse == [none |-> TRUE]

NoError == "none"

\* the increments by which the clock advances: a millisecond, and a step
\* that changes every field of the time of day
TickSizes == {1, 3661001}

\* a test for "neither undefined nor null" in place of ToBoolean
TruthyUnlessNullish(v) == v.t \notin {"undefined", "null"}

\* ToBoolean(v) for the values event.body takes
Truthy(v) ==
    CASE v.t = "undefined" -> FALSE
      [] v.t = "null"      -> FALSE
      [] v.t = "str"       -> v.s # <<>>
      [] OTHER             -> TRUE

\* a time stamp taken once, when the module was loaded
ReadCachedClock(c) == 0

\* new Date() reads the system clock
ReadClock(c) == c

\* a greeting that tells whether an earlier invocation has ended
GreetingAfterOthers ==
    IF \E k \in DOMAIN calls : calls[k].outcome \in {"fulfilled", "rejected"}
    THEN Txt(<<"H", "e", "l", "l", "o", " ", "a", "g", "a", "i", "n", "!">>)
    ELSE Txt(<<"H", "e", "l", "l", "o", ",", " ", "W", "o", "r", "l", "d", "!">>)

\* the greeting of the handler sketched in PROJECT_PLAN.md
GreetingFromPlan ==
    Txt(<<"H", "e", "l", "l", "o", " ", "f", "r", "o", "m", " ", "L", "a", "m", "b", "d", "a", "!">>)

Greeting == Txt(<<"H", "e", "l", "l", "o", ",", " ", "W", "o", "r", "l", "d", "!">>)

\* a payload whose requestId does not come from the context
PayloadFixedRequestId(ts, ctx, b) ==
    [t |-> "obj",
     m |-> << <<kMessage, [t |-> "str", s |-> Txt(<<"H", "e", "l", "l", "o", ",", " ", "W", "o", "r", "l", "d", "!">>)]>>,
              <<kTimestamp, [t |-> "str", s |-> ts]>>,
              <<kRequestId, [t |-> "str", s |-> Txt(<<"a", "b", "c", "-", "1", "2", "3">>)]>>,
              <<kBody, b>> >>]

\* the object literal of lines 17-22
Payload(ts, ctx, b) ==
    Put(Put(Put(Put(JObj(<<>>),
        kMessage, JStr(Greeting)),
        kTimestamp, JStr(ts)),
        kRequestId, Get(ctx, kAwsRequestId)),
        kBody, b)

\* headers without the cross-origin header
HeadersWithoutCors == ("Content-Type" :> "application/json")

ResponseHeaders ==
    ("Content-Type" :> "application/json") @@ ("Access-Control-Allow-Origin" :> "*")

\* a response whose status depends on the body
MakeResponseStatusByBody(ts, ctx, b) ==
    [statusCode |-> IF b = [t |-> "obj", m |-> <<>>] THEN 204 ELSE 200,
     headers    |-> ("Content-Type" :> "application/json")
                    @@ ("Access-Control-Allow-Origin" :> "*"),
     body       |-> Serialize([t |-> "obj",
                               m |-> << <<kTimestamp, [t |-> "str", s |-> ts]>>,
                                        <<kBody, b>> >>], <<>>, <<>>)]

\* the object literal of lines 11-23
MakeResponse(ts, ctx, b) ==
    [statusCode |-> 200,
     headers    |-> ResponseHeaders,
     body       |-> JSONstringify(Payload(ts, ctx, b))]

\* a log line that leaves the event out
LogLineWithoutEvent(e) == Txt(<<"E", "v", "e", "n", "t", ":", " ">>)

\* console.log("Event:", text)
LogLine(e) == Txt(<<"E", "v", "e", "n", "t", ":", " ">>) \o JSONstringifyIndented(e)

\* the branch taken on the method as well: a GET request has no body
BodyPresentUnlessGet(e) ==
    /\ Truthy(Get(e, kBody))
    /\ Get(e, kHttpMethod) # JStr(Txt(<<"G", "E", "T">>))

\* the branch decided on the text with its white space trimmed
BodyPresentTrimmed(e) ==
    /\ Truthy(Get(e, kBody))
    /\ \E i \in 1..Len(Get(e, kBody).s) : ~IsWs(Get(e, kBody).s[i])

\* the branch decided on the parsed value instead of the text
BodyPresentByValue(e) ==
    /\ Truthy(Get(e, kBody))
    /\ \A r \in {ParseText(Get(e, kBody).s)} : r.ok => Truthy(r.val)

\* line 8, the condition: event.body ? ... : ...
BodyPresent(e) == Truthy(Get(e, kBody))

\* a reader that stops after the first value and ignores what follows
ParsePrefix(t) == ParseValue(t, SkipWs(t, 1))

\* line 8, the first branch: JSON.parse(event.body)
JSONparse(t) == ParseText(t)

\* null in place of the empty object
NullBody == JNull

\* line 8, the second branch: {}
EmptyBody == JObj(<<>>)

(***************************************************************************)
(* The API binding (src/infrastructure/lib/infrastructure-stack.ts): what  *)
(* the stack provisions, and the HTTP calls made to it.                    *)
(***************************************************************************)
\* lines 17-19: the environment of the provisioned function
StackEnvironment == [NODE_ENV |-> "production"]

\* NODE_ENV in the shell that runs the deployment: not set, or a value
NotSet == "(not set)"

DeployTimeNodeEnvs == {NotSet, "development", "staging", "production"}

\* lines 17-19: the NODE_ENV the stack gives the function when deployed
\* from a shell where NODE_ENV is d.  The value is a literal; process.env
\* is not read.
ProvisionedNodeEnv(d) == StackEnvironment.NODE_ENV

\* lines 22-25: the properties the REST API is created with
RestApiProps ==
    [restApiName |-> "Serverless Auth Service",
     description |-> "API Gateway for Serverless Auth Service"]

\* line 28: the methods added to resources of the API
Methods == {[path |-> "/", method |-> "GET"]}

\* the preflight policy of the API: the gateway answers OPTIONS itself only
\* when the API is created with defaultCorsPreflightOptions
HasCorsPreflight == "defaultCorsPreflightOptions" \in DOMAIN RestApiProps

\* a binding of the root path that ignores the method
RoutedWhateverMethod(req) == \E m \in Methods : m.path = req.path

\* the call matches a method of the API and goes to helloIntegration
Routed(req) == [path |-> req.path, method |-> req.method] \in Methods

Calls == 1..MaxCalls

\* request bodies of the calls to GET /: one that parses, one that does not
CallBodies ==
    { JStr(Txt(<<"{", "\"", "x", "\"", ":", "1", "}">>)),
      JStr(Txt(<<"n", "o", "t", "-", "j", "s", "o", "n">>)) }

\* the HTTP requests callers send
Requests ==
    {[method |-> "GET", path |-> "/", body |-> b] : b \in CallBodies}
    \cup {[method |-> m, path |-> "/", body |-> JUndefined] : m \in {"POST", "OPTIONS"}}
    \cup {[method |-> "GET", path |-> "/health", body |-> JUndefined]}

\* the contexts the platform passes for forwarded calls
CallContexts == {JObj(<< <<kAwsRequestId, JStr(r)>> >>) : r \in RequestIds}

\* process.env.NODE_ENV where the handler runs: the value the stack sets,
\* or that of a deployment in development mode
NodeEnvs == {StackEnvironment.NODE_ENV, "development"}

\* what an invocation is given besides the event: its context, and the
\* environment of the process; development mode is tried with one context
Platforms ==
    {[context |-> c, env |-> StackEnvironment.NODE_ENV] : c \in CallContexts}
    \cup {[context |-> JObj(<< <<kAwsRequestId, JStr(Txt(<<"a", "b", "c", "-", "1", "2", "3">>))>> >>),
            env |-> "development"]}

NoRequest == [method |-> "", path |-> "", body |-> JUndefined]

NoReply == [none |-> TRUE]

\* a call that has not been made
NoCall ==
    [stage |-> "unsent", request |-> NoRequest, event |-> JUndefined,
     context |-> JUndefined, env |-> "", outcome |-> "none", logged |-> <<>>,
     result |-> NoResponse, encoded |-> JUndefined, reply |-> NoReply,
     trace |-> <<>>,
     afterFault |-> FALSE]

\* locals that keep the exception of an earlier invocation
FrameLeftBehind ==
    [body |-> JUndefined, payload |-> JUndefined, response |-> NoResponse,
     error |-> IF \E j \in DOMAIN calls : calls[j].outcome = "rejected"
               THEN "SyntaxError" ELSE "none"]

\* the locals of handler when it is entered
FreshFrame ==
    [body |-> JUndefined, payload |-> JUndefined, response |-> NoResponse,
     error |-> NoError]

\* one set of locals for all invocations, as module-level variables are
SharedFrame(k) == 1

\* the activation that holds the locals of invocation k
Frame(k) == k

Init ==
    /\ calls = [k \in Calls |-> NoCall]
    /\ frames = [k \in Calls |-> FreshFrame]
    /\ pc = "idle"
    /\ event = JUndefined
    /\ context = JUndefined
    /\ body = JUndefined
    /\ response = NoResponse
    /\ error = NoError
    /\ outcome = "none"
    /\ decoded = ParseFail
    /\ console = <<>>
    /\ clock = 0
    /\ ticks = 0
    /\ startTime = 0
    /\ endTime = 0

\* the platform calls handler(event, context)
Invoke ==
    /\ pc = "idle"
    /\ \E a \in Arguments :
         /\ event' = a[1]
         /\ context' = a[2]
    /\ pc' = "log"
    /\ body' = JUndefined
    /\ response' = NoResponse
    /\ error' = NoError
    /\ outcome' = "pending"
    /\ decoded' = ParseFail
    /\ console' = <<>>
    /\ startTime' = clock
    /\ endTime' = clock
    /\ UNCHANGED <<clock, ticks, calls, frames>>

\* line 5
LogEvent ==
    /\ pc = "log"
    /\ console' = Append(console, LogLine(event))
    /\ pc' = "parse"
    /\ UNCHANGED <<event, context, body, response, error, outcome, decoded,
                   clock, ticks, startTime, endTime, calls, frames>>

\* line 8 written as event.body = JSON.parse(event.body): the parsed value
\* is stored in the event as well
ParseBodyInPlace ==
    /\ pc = "parse"
    /\ IF BodyPresent(event)
       THEN \E r \in {JSONparse(Get(event, kBody).s)} :
              IF r.ok
              THEN /\ body' = r.val
                   /\ event' = Put(event, kBody, r.val)
                   /\ error' = error
                   /\ pc' = "respond"
              ELSE /\ body' = body
                   /\ event' = event
                   /\ error' = "SyntaxError"
                   /\ pc' = "settle"
       ELSE /\ body' = EmptyBody
            /\ event' = event
            /\ error' = error
            /\ pc' = "respond"
    /\ UNCHANGED <<context, response, outcome, decoded, console,
                   clock, ticks, startTime, endTime, calls, frames>>

\* line 8
ParseBody ==
    /\ pc = "parse"
    /\ IF BodyPresent(event)
       THEN LET r == JSONparse(Get(event, kBody).s)
            IN  IF r.ok
                THEN /\ body' = r.val
                     /\ error' = error
                     /\ pc' = "respond"
                ELSE /\ body' = body
                     /\ error' = "SyntaxError"
                     /\ pc' = "settle"
       ELSE /\ body' = EmptyBody
            /\ error' = error
            /\ pc' = "respond"
    /\ UNCHANGED <<event, context, response, outcome, decoded, console,
                   clock, ticks, startTime, endTime, calls, frames>>

\* lines 11-23
BuildResponse ==
    /\ pc = "respond"
    /\ response' = MakeResponse(toISOString(ReadClock(clock)), context, body)
    /\ pc' = "settle"
    /\ UNCHANGED <<event, context, body, error, outcome, decoded, console,
                   clock, ticks, startTime, endTime, calls, frames>>

\* what a caller reads from a returned result: JSON.parse(result.body)
CallerDecode(result) == ParseText(result.body)

\* the promise of the async function settles: fulfilled with the returned
\* object, whose body the caller decodes, or rejected with the exception
Settle ==
    /\ pc = "settle"
    /\ outcome' = IF error = NoError THEN "fulfilled" ELSE "rejected"
    /\ decoded' = IF error = NoError THEN CallerDecode(response) ELSE ParseFail
    /\ endTime' = clock
    /\ pc' = "done"
    /\ UNCHANGED <<event, context, body, response, error, console,
                   clock, ticks, startTime, calls, frames>>

\* the caller has the settled promise; the execution environment is free
\* for the next invocation, which shares nothing with this one
Recycle ==
    /\ pc = "done"
    /\ pc' = "idle"
    /\ event' = JUndefined
    /\ context' = JUndefined
    /\ body' = JUndefined
    /\ response' = NoResponse
    /\ error' = NoError
    /\ outcome' = "none"
    /\ decoded' = ParseFail
    /\ console' = <<>>
    /\ startTime' = 0
    /\ endTime' = 0
    /\ UNCHANGED <<clock, ticks, calls, frames>>

\* time passes.  The clock is read when an invocation begins, at line 19
\* and when the promise settles, so an advance anywhere else is the same
\* advance just before the next of these reads.
Tick ==
    /\ pc \in {"idle", "respond", "settle"}
    /\ ticks < MaxClock
    /\ \E d \in TickSizes : clock' = clock + d
    /\ ticks' = ticks + 1
    /\ UNCHANGED <<pc, event, context, body, response, error, outcome, decoded,
                   console, startTime, endTime, calls, frames>>

\* one step of the body of the async function
handler ==
    \/ LogEvent
    \/ ParseBody
    \/ BuildResponse

Next ==
    \/ Invoke
    \/ handler
    \/ Settle
    \/ Recycle
    \/ Tick

Spec == Init /\ [][Next]_vars

(***************************************************************************)
(* HTTP calls to the provisioned API.  Each call is received by the        *)
(* gateway, forwarded to the handler if it matches a method of the API,    *)
(* and answered; the invocations of different calls interleave.  The clock *)
(* stands still here: what the time stamp shows is the matter of Spec.     *)
(***************************************************************************)
\* the variables of the single invocation above, which no call touches
invocationVars ==
    <<pc, event, context, body, response, error, outcome, decoded, console,
      startTime, endTime>>

\* what a caller gets for a call that matches no method of the API
GatewayRefusal == [refused |-> TRUE]

\* what a caller gets when the invocation faulted
PlatformFault == [fault |-> TRUE]

\* the gateway's own answer to a preflight call
PreflightReply ==
    [statusCode |-> 204, headers |-> ("Access-Control-Allow-Origin" :> "*")]

\* arguments that depend on the deployment mode
HandlerArgumentsByMode(c) ==
    [event   |-> c.event,
     context |-> IF c.env = "production" THEN c.context ELSE [t |-> "obj", m |-> <<>>]]

\* line 3: handler is called with the event and the context, and with
\* nothing of the environment
HandlerArguments(c) == [event |-> c.event, context |-> c.context]

\* a body that goes on to line 11 though JSON.parse threw
NextStatementDespiteThrow(stage, threw) ==
    CASE stage = "log"     -> "parse"
      [] stage = "parse"   -> "respond"
      [] stage = "respond" -> "settle"
      [] stage = "settle"  -> "produced"

\* a body that tries the parse again when it throws
NextStatementRetrying(stage, threw) ==
    CASE stage = "log"     -> "parse"
      [] stage = "parse"   -> IF threw THEN "parse" ELSE "respond"
      [] stage = "respond" -> "settle"
      [] stage = "settle"  -> "produced"

\* lines 5-23: the statement that follows in the body of handler; an
\* exception leaves the body
NextStatement(stage, threw) ==
    CASE stage = "log"     -> "parse"
      [] stage = "parse"   -> IF threw THEN "settle" ELSE "respond"
      [] stage = "respond" -> "settle"
      [] stage = "settle"  -> "produced"

\* a gateway that answers while the handler still runs
CanReplyEarly(c) == c.stage \in {"settle", "produced"}

\* the integration answers when the promise of the handler has settled
CanReply(c) == c.stage = "produced"

\* a caller sends an HTTP request; calls are numbered as they arrive
Receive(k) ==
    /\ calls[k].stage = "unsent"
    /\ \A j \in Calls : j < k => calls[j].stage # "unsent"
    /\ \E req \in Requests :
         calls' = [calls EXCEPT ![k] =
                     [@ EXCEPT !.stage = "received",
                               !.request = req,
                               !.trace = Append(@, "received")]]
    /\ UNCHANGED <<frames, clock, ticks, invocationVars>>

\* the gateway invokes the handler for a call that matches a method
Forward(k) ==
    /\ calls[k].stage = "received"
    /\ Routed(calls[k].request)
    /\ \E p \in Platforms :
         calls' = [calls EXCEPT ![k] =
                     [@ EXCEPT !.stage = "log",
                               !.event = MakeEvent(calls[k].request.body),
                               !.context = p.context,
                               !.env = p.env,
                               !.outcome = "pending",
                               !.trace = Append(@, "invoked"),
                               !.afterFault =
                                   \E j \in Calls : calls[j].outcome = "rejected"]]
    /\ frames' = [frames EXCEPT ![Frame(k)] = FreshFrame]
    /\ UNCHANGED <<clock, ticks, invocationVars>>

\* the gateway answers a call that matches no method without the handler
Refuse(k) ==
    /\ calls[k].stage = "received"
    /\ ~Routed(calls[k].request)
    /\ calls' = [calls EXCEPT ![k] =
                   [@ EXCEPT !.stage = "answered",
                             !.reply = IF HasCorsPreflight
                                          /\ calls[k].request.method = "OPTIONS"
                                       THEN PreflightReply
                                       ELSE GatewayRefusal,
                             !.trace = Append(@, "answered")]]
    /\ UNCHANGED <<frames, clock, ticks, invocationVars>>

\* The texts the handler writes for the calls the gateway forwards, worked
\* out once: the log line of each event, the time stamp of each clock
\* reading and the response for each reading, context and value of body.
CallEvents == {MakeEvent(b) : b \in CallBodies}

ParsedBodies == [b \in CallBodies |-> JSONparse(b.s)]

LogLines == [e \in CallEvents |-> LogLine(e)]

Timestamps == [c \in 0..MaxClock |-> toISOString(c)]

CallValues ==
    {EmptyBody} \cup {ParsedBodies[b].val : b \in {c \in CallBodies : ParsedBodies[c].ok}}

Responses ==
    [c \in 0..MaxClock, ctx \in CallContexts, b \in CallValues |->
        MakeResponse(toISOString(c), ctx, b)]

\* line 8, JSON.parse(event.body) for the body b, a string
ParsedBody(b) == IF b \in DOMAIN ParsedBodies THEN ParsedBodies[b] ELSE JSONparse(b.s)

\* line 5, the argument of console.log
LogLineOf(e) == IF e \in DOMAIN LogLines THEN LogLines[e] ELSE LogLine(e)

\* line 19, with c the reading of the clock
TimestampAt(c) == IF c \in DOMAIN Timestamps THEN Timestamps[c] ELSE toISOString(c)

\* lines 11-23, with c the reading of the clock
ResponseAt(c, ctx, b) ==
    IF <<c, ctx, b>> \in DOMAIN Responses
    THEN Responses[c, ctx, b]
    ELSE MakeResponse(toISOString(c), ctx, b)

\* line 5, for call k
LogEventOf(k) ==
    /\ calls[k].stage = "log"
    /\ calls' = [calls EXCEPT ![k] =
                   [@ EXCEPT !.stage = NextStatement("log", FALSE),
                             !.logged = Append(@, LogLineOf(HandlerArguments(calls[k]).event))]]
    /\ UNCHANGED <<frames, clock, ticks, invocationVars>>

\* line 8, for call k
ParseBodyOf(k) ==
    /\ calls[k].stage = "parse"
    /\ \E e \in {HandlerArguments(calls[k]).event} :
         IF BodyPresent(e)
         THEN \E r \in {ParsedBody(Get(e, kBody))} :
                /\ frames' = [frames EXCEPT ![Frame(k)] =
                                IF r.ok THEN [@ EXCEPT !.body = r.val]
                                ELSE [@ EXCEPT !.error = "SyntaxError"]]
                /\ calls' = [calls EXCEPT ![k].stage = NextStatement("parse", ~r.ok)]
         ELSE /\ frames' = [frames EXCEPT ![Frame(k)].body = EmptyBody]
              /\ calls' = [calls EXCEPT ![k].stage = NextStatement("parse", FALSE)]
    /\ UNCHANGED <<clock, ticks, invocationVars>>

\* lines 11-23, for call k: the object literal of lines 17-22 is kept
\* beside the response that carries its encoding
BuildResponseOf(k) ==
    /\ calls[k].stage = "respond"
    /\ \E c \in {ReadClock(clock)}, args \in {HandlerArguments(calls[k])} :
         frames' = [frames EXCEPT ![Frame(k)] =
                      [@ EXCEPT !.payload =
                                    Payload(TimestampAt(c), args.context, frames[Frame(k)].body),
                                !.response =
                                    ResponseAt(c, args.context, frames[Frame(k)].body)]]
    /\ calls' = [calls EXCEPT ![k].stage = NextStatement("respond", FALSE)]
    /\ UNCHANGED <<clock, ticks, invocationVars>>

\* the promise of the invocation of call k settles and its activation ends
SettleOf(k) ==
    /\ calls[k].stage = "settle"
    /\ calls' = [calls EXCEPT ![k] =
                   [@ EXCEPT !.stage = NextStatement("settle", FALSE),
                             !.outcome = IF frames[Frame(k)].error = NoError
                                         THEN "fulfilled" ELSE "rejected",
                             !.result = frames[Frame(k)].response,
                             !.encoded = frames[Frame(k)].payload,
                             !.trace = Append(@, "produced")]]
    /\ frames' = [frames EXCEPT ![Frame(k)] = FreshFrame]
    /\ UNCHANGED <<clock, ticks, invocationVars>>

\* the gateway passes the outcome back to the caller
Reply(k) ==
    /\ CanReply(calls[k])
    /\ calls' = [calls EXCEPT ![k] =
                   [@ EXCEPT !.stage = "answered",
                             !.reply = IF calls[k].outcome = "fulfilled"
                                       THEN calls[k].result ELSE PlatformFault,
                             !.trace = Append(@, "answered")]]
    /\ UNCHANGED <<frames, clock, ticks, invocationVars>>

\* one step of the body of the async function, for call k
handlerOf(k) ==
    \/ LogEventOf(k)
    \/ ParseBodyOf(k)
    \/ BuildResponseOf(k)

SystemNext ==
    \/ \E k \in Calls : Receive(k)
    \/ \E k \in Calls : Forward(k)
    \/ \E k \in Calls : Refuse(k)
    \/ \E k \in Calls : handlerOf(k)
    \/ \E k \in Calls : SettleOf(k)
    \/ \E k \in Calls : Reply(k)

System == Init /\ [][SystemNext]_vars

\* the platform keeps running the invocations it has started: while some
\* invocation can take a step, a step of an invocation is taken in the
\* end.  Nothing is assumed about which one, nor about the gateway.
FairSystem == System /\ WF_vars(\E k \in Calls : handlerOf(k) \/ SettleOf(k))

(***************************************************************************)
(* What the properties below are stated with.                              *)
(*                                                                         *)
(* The JSON grammar of ECMA-404 / RFC 8259 as a recogniser over spans:     *)
(* G...(t, i, j) says that the characters t[i] .. t[j-1] form the          *)
(* construct.  It is written from the grammar, independently of the        *)
(* reader above, and builds no value.                                      *)
(***************************************************************************)
GWs(t, i, j) == \A x \in i..(j - 1) : IsWs(t[x])

GDigits(t, i, j) == i < j /\ \A x \in i..(j - 1) : IsDigit(t[x])

GInt(t, i, j) == GDigits(t, i, j) /\ (j - i = 1 \/ t[i] # Ch("0"))

GFrac(t, i, j) == i = j \/ (t[i] = Ch(".") /\ GDigits(t, i + 1, j))

GExp(t, i, j) ==
    \/ i = j
    \/ /\ t[i] \in {Ch("e"), Ch("E")}
       /\ \/ GDigits(t, i + 1, j)
          \/ (i + 1 < j /\ t[i + 1] \in {Ch("+"), Ch("-")} /\ GDigits(t, i + 2, j))

GNumber(t, i, j) ==
    /\ i < j
    /\ \E s \in {i, i + 1} :
         /\ (s = i + 1) = (t[i] = Ch("-"))
         /\ \E a \in s..j, b \in s..j :
              a <= b /\ GInt(t, s, a) /\ GFrac(t, a, b) /\ GExp(t, b, j)

RECURSIVE GChars(_, _, _)
GChars(t, i, j) ==
    \/ i = j
    \/ /\ i < j
       /\ t[i] >= 32
       /\ t[i] \notin {Ch("\""), Ch("\\")}
       /\ GChars(t, i + 1, j)
    \/ /\ i + 1 < j
       /\ t[i] = Ch("\\")
       /\ t[i + 1] \in {Ch("\""), Ch("\\"), Ch("/"), Ch("b"), Ch("f"), Ch("n"), Ch("r"),
                        Ch("t")}
       /\ GChars(t, i + 2, j)
    \/ /\ i + 5 < j + 0
       /\ t[i] = Ch("\\")
       /\ t[i + 1] = Ch("u")
       /\ \A x \in 2..5 : IsHex(t[i + x])
       /\ GChars(t, i + 6, j)

GString(t, i, j) ==
    j - i >= 2 /\ t[i] = Ch("\"") /\ t[j - 1] = Ch("\"") /\ GChars(t, i + 1, j - 1)

GWord(t, i, j, w) == j - i = Len(w) /\ \A x \in 1..Len(w) : t[i + x - 1] = w[x]

RECURSIVE GValue(_, _, _)
RECURSIVE GElements(_, _, _)
RECURSIVE GMembers(_, _, _)

\* ws value ws
GElement(t, i, j) ==
    \E a \in i..j, b \in i..j : a < b /\ GWs(t, i, a) /\ GValue(t, a, b) /\ GWs(t, b, j)

\* ws string ws ':' element
GMember(t, i, j) ==
    \E c \in i..(j - 1) :
        /\ t[c] = Ch(":")
        /\ \E a \in i..c, b \in i..c : GWs(t, i, a) /\ GString(t, a, b) /\ GWs(t, b, c)
        /\ GElement(t, c + 1, j)

GElements(t, i, j) ==
    \/ GElement(t, i, j)
    \/ \E k \in i..(j - 1) :
         t[k] = Ch(",") /\ GElement(t, i, k) /\ GElements(t, k + 1, j)

GMembers(t, i, j) ==
    \/ GMember(t, i, j)
    \/ \E k \in i..(j - 1) :
         t[k] = Ch(",") /\ GMember(t, i, k) /\ GMembers(t, k + 1, j)

GValue(t, i, j) ==
    \/ GWord(t, i, j, Txt(<<"n", "u", "l", "l">>))
    \/ GWord(t, i, j, Txt(<<"t", "r", "u", "e">>))
    \/ GWord(t, i, j, Txt(<<"f", "a", "l", "s", "e">>))
    \/ GNumber(t, i, j)
    \/ GString(t, i, j)
    \/ /\ j - i >= 2
       /\ t[i] = Ch("[")
       /\ t[j - 1] = Ch("]")
       /\ (GWs(t, i + 1, j - 1) \/ GElements(t, i + 1, j - 1))
    \/ /\ j - i >= 2
       /\ t[i] = Ch("{")
       /\ t[j - 1] = Ch("}")
       /\ (GWs(t, i + 1, j - 1) \/ GMembers(t, i + 1, j - 1))

\* t is a JSON text
IsJSONText(t) == GElement(t, 1, Len(t) + 1)

\* deep equality of two values: numbers by numeric value (so 0 and -0 are
\* equal), objects by their properties whatever the order
RECURSIVE DeepEqual(_, _)
DeepEqual(a, b) ==
    IF a.t # b.t THEN FALSE
    ELSE CASE a.t = "num" -> a.ds = b.ds /\ a.n = b.n /\ (a.neg = b.neg \/ a.ds = <<>>)
           [] a.t = "arr" -> /\ Len(a.a) = Len(b.a)
                             /\ \A i \in 1..Len(a.a) : DeepEqual(a.a[i], b.a[i])
           [] a.t = "obj" -> /\ Keys(a) = Keys(b)
                             /\ \A k \in Keys(a) : DeepEqual(Get(a, k), Get(b, k))
           [] OTHER       -> a = b

\* the value of t[i] .. t[j-1] read as a decimal numeral
FieldValue(t, i, j) == DigitsValue(KeyDigits(Slice(t, i, j)))

\* t has the shape YYYY-MM-DDTHH:mm:ss.sssZ with every field in range
IsISO8601(t) ==
    /\ Len(t) = 24
    /\ \A x \in (1..23) \ {5, 8, 11, 14, 17, 20} : IsDigit(t[x])
    /\ t[5] = Ch("-") /\ t[8] = Ch("-") /\ t[11] = Ch("T")
    /\ t[14] = Ch(":") /\ t[17] = Ch(":") /\ t[20] = Ch(".") /\ t[24] = Ch("Z")
    /\ FieldValue(t, 6, 8) \in 1..12
    /\ FieldValue(t, 9, 11) \in 1..31
    /\ FieldValue(t, 12, 14) \in 0..23
    /\ FieldValue(t, 15, 17) \in 0..59
    /\ FieldValue(t, 18, 20) \in 0..59

\* the instant an ISO-8601 text of January 1970 names, in milliseconds
InstantOf(t) ==
    (FieldValue(t, 9, 11) - 1) * 86400000 + FieldValue(t, 12, 14) * 3600000
    + FieldValue(t, 15, 17) * 60000 + FieldValue(t, 18, 20) * 1000
    + FieldValue(t, 21, 24)

InJanuary1970(t) == FieldValue(t, 1, 5) = 1970 /\ FieldValue(t, 6, 8) = 1

\* the handler has produced a response object
HasResponse == response # NoResponse

\* the invocation has returned a response to its caller
Returned == pc = "done" /\ outcome = "fulfilled" /\ response # NoResponse

\* event.body of the current invocation (undefined while there is none)
RawBody == IF event.t = "obj" THEN Get(event, kBody) ELSE JUndefined

\* the invocation is over
Done == pc = "done"

(***************************************************************************)
(* Properties.                                                             *)
(***************************************************************************)

\* event.body is present (a non-empty string) and is not a valid JSON text
Malformed ==
    /\ RawBody.t = "str"
    /\ RawBody.s # <<>>
    /\ \A t \in {RawBody.s} : ~IsJSONText(t)

\* C1: for every event whose body is a valid JSON text B, and every
\* context, the handler returns a response with statusCode 200 whose
\* JSON-decoded body has a `body` field deep-equal to the value of B.
C1_EchoesEveryValidBody ==
    (Done /\ RawBody.t = "str" /\ \E t \in {RawBody.s} : IsJSONText(t)) =>
        /\ Returned
        /\ response.statusCode = 200
        /\ decoded.ok
        /\ \A sent \in {ParseText(RawBody.s)}, echoed \in {Get(decoded.val, kBody)} :
              DeepEqual(echoed, sent.val)

\* C2: for every event whose body is absent (undefined or null) or the
\* empty string, the handler returns statusCode 200 and the `body` field
\* of the decoded response body is the empty object {}.
C2_AbsentBodyGivesEmptyObject ==
    (Done /\ (RawBody.t \in {"undefined", "null"} \/ RawBody = JStr(<<>>))) =>
        /\ Returned
        /\ response.statusCode = 200
        /\ decoded.ok
        /\ Get(decoded.val, kBody) = JObj(<<>>)

C2_Witness ==
    /\ Returned
    /\ RawBody = JStr(<<>>)
    /\ decoded.ok
    /\ Get(decoded.val, kBody) = JObj(<<>>)

\* C3: when the event body is present but is not valid JSON, the handler
\* never produces a response object (no status code, no headers, no body)
\* and the invocation ends as an unhandled fault: the promise is rejected
\* with the parse error.  Stated contrapositively: a response object, or
\* an invocation that ended otherwise, is found only with a body that is
\* not malformed.
C3_MalformedBodyFaults ==
    (HasResponse \/ (Done /\ ~(outcome = "rejected" /\ error = "SyntaxError")))
        => ~Malformed

C3_Witness ==
    /\ Done
    /\ RawBody = JStr(Txt(<<"n", "o", "t", "-", "j", "s", "o", "n">>))
    /\ Malformed
    /\ outcome = "rejected"
    /\ ~HasResponse

\* C4: every response the handler returns has statusCode exactly 200.
C4_StatusAlways200 == HasResponse => response.statusCode = 200

C4_Witness ==
    /\ Returned
    /\ RawBody = JStr(Txt(<<"{", "\"", "x", "\"", ":", "1", "}">>))
    /\ response.statusCode = 200

C6_RequestIdIsContextId ==
    Returned =>
        /\ decoded.ok
        /\ Get(decoded.val, kRequestId) = Get(context, kAwsRequestId)

C6_Witness ==
    /\ Returned
    /\ Get(context, kAwsRequestId) = JStr(Txt(<<"r", "\"", "2">>))
    /\ decoded.ok
    /\ Get(decoded.val, kRequestId) = JStr(Txt(<<"r", "\"", "2">>))

\* C7: every response has a JSON-encoded body with exactly the four fields
\* message, timestamp, requestId and body, for every event and every
\* context, including a context that carries no awsRequestId.
C7_ExactlyFourFields ==
    Returned =>
        /\ decoded.ok
        /\ decoded.val.t = "obj"
        /\ Keys(decoded.val) = {kMessage, kTimestamp, kRequestId, kBody}

\* C8: every response carries the headers Content-Type = application/json
\* and Access-Control-Allow-Origin = *.
C8_HeadersAlwaysSet ==
    HasResponse =>
        /\ "Content-Type" \in DOMAIN response.headers
        /\ response.headers["Content-Type"] = "application/json"
        /\ "Access-Control-Allow-Origin" \in DOMAIN response.headers
        /\ response.headers["Access-Control-Allow-Origin"] = "*"

C8_Witness ==
    /\ Returned
    /\ RawBody.t = "undefined"
    /\ DOMAIN response.headers = {"Content-Type", "Access-Control-Allow-Origin"}

\* C9: the `message` field of every response is the fixed string
\* "Hello, World!", whatever the event and the context.
C9_MessageIsGreeting ==
    Returned =>
        /\ decoded.ok
        /\ Get(decoded.val, kMessage)
             = JStr(Txt(<<"H", "e", "l", "l", "o", ",", " ", "W", "o", "r", "l", "d", "!">>))

C9_Witness ==
    /\ Returned
    /\ RawBody = JStr(Txt(<<"n", "u", "l", "l">>))
    /\ context = JObj(<<>>)
    /\ decoded.ok
    /\ Get(decoded.val, kMessage).t = "str"

\* C10: with a non-decreasing clock, the `timestamp` field of every
\* response is an ISO-8601 text naming a clock reading t with
\* start <= t <= end, start being the clock when the invocation began and
\* end the clock when it returned.
C10_TimestampWithinInvocation ==
    Returned =>
        /\ decoded.ok
        /\ Get(decoded.val, kTimestamp).t = "str"
        /\ \A ts \in {Get(decoded.val, kTimestamp).s} :
              /\ IsISO8601(ts)
              /\ InJanuary1970(ts)
              /\ \A t \in {InstantOf(ts)} : startTime <= t /\ t <= endTime

C10_Witness ==
    /\ Returned
    /\ 0 < startTime
    /\ decoded.ok
    /\ \E t \in {InstantOf(Get(decoded.val, kTimestamp).s)} :
          startTime < t /\ t <= endTime

(***************************************************************************)
(* Properties of the calls and their invocations.                          *)
(***************************************************************************)
\* how an invocation ended, as a record: from its activation while its
\* promise is about to settle, from the call afterwards
Ended(k) ==
    IF calls[k].stage = "settle"
    THEN [outcome |-> IF frames[Frame(k)].error = NoError THEN "fulfilled" ELSE "rejected",
          result  |-> frames[Frame(k)].response,
          encoded |-> frames[Frame(k)].payload]
    ELSE [outcome |-> calls[k].outcome,
          result  |-> calls[k].result,
          encoded |-> calls[k].encoded]

\* the outcome without the time stamp: a fault, or the status, the
\* headers and the message, requestId and body fields of a response
OutcomeOf(r) ==
    CASE r.outcome = "rejected" -> [outcome |-> "rejected"]
      [] r.outcome = "fulfilled" /\ r.result # NoResponse /\ r.encoded.t = "obj" ->
            [outcome    |-> "fulfilled",
             statusCode |-> r.result.statusCode,
             headers    |-> r.result.headers,
             message    |-> Get(r.encoded, kMessage),
             requestId  |-> Get(r.encoded, kRequestId),
             body       |-> Get(r.encoded, kBody)]
      [] OTHER -> [outcome |-> "none"]

\* handler(e, ctx) run from start to end with nothing else going on, the
\* clock reading 0
RunAlone(e, ctx) ==
    IF BodyPresent(e) /\ ~JSONparse(Get(e, kBody).s).ok
    THEN [outcome |-> "rejected", result |-> NoResponse, encoded |-> JUndefined]
    ELSE \* the body parses, or there is none
         CHOOSE r \in {[outcome |-> "fulfilled",
                        result  |-> MakeResponse(toISOString(0), ctx, b),
                        encoded |-> Payload(toISOString(0), ctx, b)] :
                       b \in {IF BodyPresent(e) THEN JSONparse(Get(e, kBody).s).val
                              ELSE EmptyBody}} : TRUE

\* the outcomes of the invocations the gateway can make, each run alone
AloneOutcomes ==
    [e \in CallEvents, ctx \in CallContexts |->
        OutcomeOf(RunAlone(e, ctx))]

\* the handler of call k has come to its end
HasEnded(k) == calls[k].stage \in {"settle", "produced", "answered"} /\ calls[k].event # JUndefined

\* C11: when invocations run concurrently and their steps interleave in
\* any order, every invocation ends with the outcome (fault, or status,
\* headers, message, requestId and body) it has when run alone on its own
\* event and context.
C11_OutcomeAsWhenAlone ==
    \A k \in Calls :
        HasEnded(k) =>
            OutcomeOf(Ended(k)) = AloneOutcomes[calls[k].event, calls[k].context]

C11_Witness ==
    \E j, k \in Calls :
        /\ calls[j].stage = "settle" /\ calls[k].stage = "settle"
        /\ calls[j].context # calls[k].context
        /\ OutcomeOf(Ended(j)).outcome = "fulfilled"
        /\ OutcomeOf(Ended(k)).outcome = "rejected"
        /\ OutcomeOf(Ended(j)) = AloneOutcomes[calls[j].event, calls[j].context]

\* the request bodies of the calls that are JSON texts, with their values
ValidCallBodies == {b \in CallBodies : JSONparse(b.s).ok}

ValueOfCallBody == [b \in ValidCallBodies |-> JSONparse(b.s).val]

\* C12: nothing is kept between invocations: an invocation started after
\* an earlier one ended in a parse fault ends as it does when run alone on
\* its own event and context, and with a valid body it returns 200 with
\* its own body echoed.
C12_NoStateBetweenInvocations ==
    \A k \in Calls :
        calls[k].afterFault /\ HasEnded(k) =>
            /\ OutcomeOf(Ended(k)) = AloneOutcomes[calls[k].event, calls[k].context]
            /\ Get(calls[k].event, kBody) \in ValidCallBodies =>
                 /\ OutcomeOf(Ended(k)).outcome = "fulfilled"
                 /\ OutcomeOf(Ended(k)).statusCode = 200
                 /\ OutcomeOf(Ended(k)).body = ValueOfCallBody[Get(calls[k].event, kBody)]

C12_Witness ==
    \E j, k \in Calls :
        /\ calls[j].outcome = "rejected"
        /\ calls[k].afterFault
        /\ calls[k].stage = "answered"
        /\ calls[k].reply = calls[k].result
        /\ calls[k].reply.statusCode = 200
        /\ Get(calls[k].encoded, kBody) = ValueOfCallBody[Get(calls[k].event, kBody)]

\* C13: every invocation writes exactly one log line, "Event: " followed
\* by the whole serialized event, and writes it before the body is
\* parsed: nothing is written before line 5, the line is there while
\* body is still unset, and it stays the only one to the end, also when
\* JSON.parse then throws.
C13_OneLogLineBeforeParsing ==
    /\ pc = "log" => console = <<>>
    /\ pc \in {"parse", "respond", "settle", "done"} =>
         console = <<Txt(<<"E", "v", "e", "n", "t", ":", " ">>) \o JSONstringifyIndented(event)>>
    /\ pc \in {"log", "parse"} => body = JUndefined /\ error = NoError

C13_Witness ==
    /\ Done
    /\ outcome = "rejected"
    /\ Malformed
    /\ Len(console) = 1
    /\ Len(console[1]) > 7

\* the handler was invoked for call k
Invoked(k) == \E i \in DOMAIN calls[k].trace : calls[k].trace[i] = "invoked"

\* the request of call k is for the root path with method GET
IsGetRoot(k) == calls[k].request.path = "/" /\ calls[k].request.method = "GET"

C15_GatewayAnswersPreflight ==
    \A k \in Calls :
        /\ calls[k].request # NoRequest
        /\ calls[k].request.path = "/" /\ calls[k].request.method = "OPTIONS"
        /\ calls[k].stage = "answered"
        => /\ calls[k].reply = PreflightReply
           /\ HasCorsPreflight

\* s is an initial part of t
IsPrefix(s, t) == Len(s) <= Len(t) /\ \A i \in 1..Len(s) : s[i] = t[i]

\* the events of a call to GET /, in their order
CallOrder == <<"received", "invoked", "produced", "answered">>

\* C16: for every call to GET / the events happen in the order received,
\* handler invoked, outcome produced, outcome passed back, each at most
\* once; the caller has a reply only once the call is answered, and a
\* reply that is a handler response is the response the handler of that
\* call has produced before.
C16_CallEventsInOrder ==
    \A k \in Calls :
        calls[k].request # NoRequest /\ IsGetRoot(k) =>
            /\ IsPrefix(calls[k].trace, CallOrder)
            /\ calls[k].reply # NoReply <=> calls[k].trace = CallOrder
            /\ calls[k].reply # NoReply =>
                 /\ calls[k].outcome \in {"fulfilled", "rejected"}
                 /\ calls[k].outcome = "fulfilled" =>
                      calls[k].reply = calls[k].result /\ calls[k].result # NoResponse
                 /\ calls[k].outcome = "rejected" => calls[k].reply = PlatformFault

C16_Witness ==
    \E k \in Calls :
        /\ calls[k].request # NoRequest /\ IsGetRoot(k)
        /\ calls[k].trace = CallOrder
        /\ calls[k].outcome = "fulfilled"
        /\ calls[k].reply = calls[k].result
        /\ calls[k].reply.statusCode = 200

\* C17: two invocations given equal event and equal context have the same
\* outcome: both fault, or both return the same status, headers,
\* message, requestId and body (the timestamp is left out of the
\* comparison), whatever else was invoked before or meanwhile.
C17_SameArgumentsSameOutcome ==
    \A j, k \in Calls :
        /\ HasEnded(j) /\ HasEnded(k)
        /\ calls[j].event = calls[k].event
        /\ calls[j].context = calls[k].context
        => OutcomeOf(Ended(j)) = OutcomeOf(Ended(k))

C17_Witness ==
    \E j, k \in Calls :
        /\ j # k
        /\ calls[j].stage = "answered" /\ calls[k].stage = "answered"
        /\ Invoked(j) /\ Invoked(k)
        /\ calls[j].event = calls[k].event
        /\ calls[j].context = calls[k].context
        /\ OutcomeOf(Ended(j)).outcome = "fulfilled"
        /\ OutcomeOf(Ended(j)) = OutcomeOf(Ended(k))

\* C18: the outcome does not depend on NODE_ENV: two invocations with the
\* same event and context whose environments give NODE_ENV different
\* values end alike, in fault or in status, headers, message, requestId
\* and body; the value the stack sets is the constant 'production'.
C18_OutcomeIndependentOfNodeEnv ==
    /\ StackEnvironment.NODE_ENV = "production"
    /\ \A j, k \in Calls :
        /\ HasEnded(j) /\ HasEnded(k)
        /\ calls[j].env # calls[k].env
        /\ calls[j].event = calls[k].event
        /\ calls[j].context = calls[k].context
        => /\ OutcomeOf(Ended(j)) = OutcomeOf(Ended(k))
           /\ calls[j].stage = "answered" /\ calls[k].stage = "answered" =>
                calls[j].logged = calls[k].logged

C18_Witness ==
    \E j, k \in Calls :
        /\ calls[j].stage = "answered" /\ calls[k].stage = "answered"
        /\ calls[j].env = "production" /\ calls[k].env = "development"
        /\ calls[j].event = calls[k].event
        /\ calls[j].context = calls[k].context
        /\ OutcomeOf(Ended(j)).outcome = "fulfilled"
        /\ OutcomeOf(Ended(j)).requestId = OutcomeOf(Ended(k)).requestId
        /\ OutcomeOf(Ended(j)).requestId # JUndefined

\* the handler of call k is running
Running(k) == calls[k].stage \in {"log", "parse", "respond", "settle"}

\* the promise of call k has settled
Completed(k) == calls[k].stage \in {"produced", "answered"} /\ Invoked(k)

\* the invocation of call k has ended with a response or with a fault,
\* not with both and not with neither
HasOneOutcome(k) ==
    /\ calls[k].outcome \in {"fulfilled", "rejected"}
    /\ calls[k].outcome = "fulfilled" <=> calls[k].result # NoResponse

\* every invocation started so far has completed, each with one outcome
AllSettled == \A k \in Calls : Invoked(k) => Completed(k) /\ HasOneOutcome(k)

\* C19: every invocation terminates with exactly one outcome, a returned
\* response or a fault: when the started invocations are scheduled
\* fairly, again and again every invocation started so far has
\* completed, with a response or with a fault and never with both or
\* neither.  An invocation once started stays started, so each one
\* comes to be completed, whatever the other calls do.
C19_EveryInvocationCompletes == []<>AllSettled

C19_Witness ==
    \E j, k \in Calls :
        /\ j < k
        /\ calls[j].stage = "log"
        /\ Completed(k) /\ HasOneOutcome(k)
        /\ calls[k].outcome = "rejected"

\* non-empty JSON texts of values that are not objects: null, false, 0,
\* "" and an array
NonObjectTexts ==
    { Txt(<<"n", "u", "l", "l">>),
      Txt(<<"f", "a", "l", "s", "e">>),
      Txt(<<"0">>),
      Txt(<<"\"", "\"">>),
      Txt(<<"[", "1", ",", "\"", "a", "\"", "]">>) }

\* C20: the branch of line 8 is taken on the text of the body, not on
\* the value it parses to: for a body that is the JSON text of null,
\* false, 0, "" or an array, the handler returns 200 and the body field
\* of the response is that value, not the empty object {}; the request
\* is not rejected for not being a JSON object.
C20_NonObjectBodiesAreEchoed ==
    Done /\ RawBody.t = "str" /\ RawBody.s \in NonObjectTexts =>
        /\ Returned
        /\ response.statusCode = 200
        /\ decoded.ok
        /\ decoded.val.t = "obj"
        /\ \A v \in {ParseText(RawBody.s).val} :
             /\ v.t \in {"null", "bool", "num", "str", "arr"}
             /\ Get(decoded.val, kBody) = v
             /\ Get(decoded.val, kBody) # JObj(<<>>)

C20_Witness ==
    /\ Returned
    /\ RawBody = JStr(Txt(<<"n", "u", "l", "l">>))
    /\ response.statusCode = 200
    /\ decoded.ok
    /\ Get(decoded.val, kBody) = JNull

\* event.body is a non-empty string of white space only
BlankBody ==
    /\ RawBody.t = "str"
    /\ RawBody.s # <<>>
    /\ \A i \in 1..Len(RawBody.s) : IsWs(RawBody.s[i])

\* C21: a body of white space only counts as present: JSON.parse is
\* called on it and throws, so the invocation ends in a fault with no
\* response, not in 200 with body {}.  A response whose body field is {}
\* comes only from a body that is missing, null or the zero-length
\* string, or from a text that parses to {}.
C21_BlankBodyFaults ==
    /\ Done /\ BlankBody =>
         /\ outcome = "rejected"
         /\ error = "SyntaxError"
         /\ response = NoResponse
         /\ body = JUndefined
    /\ Returned /\ decoded.ok /\ Get(decoded.val, kBody) = JObj(<<>>) =>
         \/ RawBody \in {JUndefined, JNull, JStr(<<>>)}
         \/ /\ RawBody.t = "str"
            /\ ~BlankBody
            /\ \A r \in {ParseText(RawBody.s)} : r.ok /\ r.val = JObj(<<>>)

C21_Witness ==
    /\ Done
    /\ RawBody = JStr(<<32, 32>>)
    /\ BlankBody
    /\ outcome = "rejected"
    /\ response = NoResponse

\* the event with the body of e and nothing else of it, as the GET /
\* event of the gateway
SameBodyEvent(e) == MakeEvent(Get(e, kBody))

\* the context with the awsRequestId of c and nothing else of it
SameIdContext(c) ==
    IF HasOwn(c, kAwsRequestId)
    THEN JObj(<< <<kAwsRequestId, Get(c, kAwsRequestId)>> >>)
    ELSE JObj(<<>>)

\* how the current invocation has ended
EndedNow ==
    [outcome |-> outcome,
     result  |-> response,
     encoded |-> IF decoded.ok THEN decoded.val ELSE JUndefined]

\* an ended invocation as its caller sees it, with the body text of the
\* response decoded
AsDecoded(r) ==
    [outcome |-> r.outcome,
     result  |-> r.result,
     encoded |-> IF r.outcome = "fulfilled" /\ r.result # NoResponse
                 THEN CallerDecode(r.result).val
                 ELSE JUndefined]

\* C22: the response depends on the event through its body field only,
\* and on the context through awsRequestId only: an invocation ends as
\* the invocation does whose event has the same body and whose context
\* the same awsRequestId with every other field different or missing
\* (method, path, headers, query string, requestContext), alike in fault
\* or in status, headers, message, requestId and body.  Two invocations
\* equal in body and awsRequestId therefore end alike.
C22_OnlyBodyAndRequestIdMatter ==
    Done =>
        \A e \in {SameBodyEvent(event)}, c \in {SameIdContext(context)} :
            OutcomeOf(EndedNow) = OutcomeOf(AsDecoded(RunAlone(e, c)))

C22_Witness ==
    /\ Returned
    /\ Get(event, kHttpMethod) = JStr(Txt(<<"P", "O", "S", "T">>))
    /\ HasOwn(event, kHeaders)
    /\ context = NamedContext
    /\ event # SameBodyEvent(event)
    /\ context # SameIdContext(context)
    /\ RawBody = JStr(Txt(<<"{", "\"", "x", "\"", ":", "1", "}">>))
    /\ OutcomeOf(EndedNow) =
         OutcomeOf(AsDecoded(RunAlone(SameBodyEvent(event), SameIdContext(context))))
    /\ OutcomeOf(EndedNow).body # JObj(<<>>)

\* the steps of one call, in their order
StageOrder ==
    { <<"unsent", "received">>, <<"received", "log">>, <<"received", "answered">>,
      <<"log", "parse">>, <<"parse", "respond">>, <<"parse", "settle">>,
      <<"respond", "settle">>, <<"settle", "produced">>, <<"produced", "answered">> }

\* what a step of the system does to the invocation of call k
StepInOrder(k) ==
    /\ calls'[k].stage # calls[k].stage =>
         <<calls[k].stage, calls'[k].stage>> \in StageOrder
    /\ calls'[k].logged # calls[k].logged =>
         /\ calls[k].stage = "log" /\ calls'[k].stage = "parse"
         /\ calls[k].logged = <<>> /\ Len(calls'[k].logged) = 1
         /\ frames[Frame(k)] = FreshFrame
    /\ frames'[Frame(k)].body # frames[Frame(k)].body /\ frames'[Frame(k)].body # JUndefined =>
         /\ calls[k].stage = "parse" /\ calls'[k].stage = "respond"
         /\ Len(calls[k].logged) = 1
         /\ frames[Frame(k)].response = NoResponse
    /\ calls[k].stage = "parse" /\ calls'[k].stage = "settle" =>
         /\ frames'[Frame(k)].error = "SyntaxError"
         /\ frames'[Frame(k)].response = NoResponse
         /\ frames'[Frame(k)].payload = JUndefined
    /\ frames'[Frame(k)].response # frames[Frame(k)].response
         /\ frames'[Frame(k)].response # NoResponse =>
         /\ calls[k].stage = "respond" /\ calls'[k].stage = "settle"
         /\ Len(calls[k].logged) = 1
         /\ frames[Frame(k)].error = NoError
         /\ frames[Frame(k)].body # JUndefined
         /\ Get(frames'[Frame(k)].payload, kTimestamp) = JStr(TimestampAt(clock))
    /\ calls'[k].outcome = "rejected" =>
         calls'[k].result = NoResponse /\ calls'[k].encoded = JUndefined

\* C23: within an invocation the steps come in the order log, body
\* parse, then timestamp read and construction of the response: the log
\* line is written first, the body is set after it and before any
\* response, the clock is read in the step that builds the response; an
\* invocation whose parse step throws goes straight to its end with no
\* timestamp read and no response built.
C23_StepsInOrder == [][\A k \in Calls : StepInOrder(k)]_vars

C23_Witness ==
    \E j, k \in Calls :
        /\ calls[j].stage = "settle"
        /\ frames[Frame(j)].error = "SyntaxError"
        /\ frames[Frame(j)].response = NoResponse
        /\ Len(calls[j].logged) = 1
        /\ calls[k].stage = "settle"
        /\ frames[Frame(k)].response # NoResponse
        /\ Get(frames[Frame(k)].payload, kTimestamp) = JStr(TimestampAt(clock))
        /\ Len(calls[k].logged) = 1

\* the handler is running: between its call and the settling of its promise
InHandler == pc \in {"log", "parse", "respond", "settle"}

\* C24: the handler leaves its inputs unchanged: no step of an
\* invocation, from its call to the settling of its promise with a
\* response or a fault, changes the event object or the context object,
\* so both are at the end what they were at the start.
C24_InputsUnchanged ==
    [][InHandler => event' = event /\ context' = context]_vars

C24_Witness ==
    /\ Done
    /\ outcome = "rejected"
    /\ <<event, context>> \in Arguments
    /\ event = MakePostEvent(JStr(Txt(<<"n", "o", "t", "-", "j", "s", "o", "n">>)))
    /\ context = NamedContext

\* C25: the NODE_ENV the stack gives the Lambda function is the NODE_ENV
\* of the deployment, and 'development' when that is not set: whenever
\* the function runs with the environment the stack has given it, that
\* value is the one the deployment had, whatever it was.
C25_NodeEnvFromDeployment ==
    \A k \in Calls :
        Invoked(k) /\ calls[k].env = StackEnvironment.NODE_ENV =>
            \A d \in DeployTimeNodeEnvs :
                ProvisionedNodeEnv(d) = IF d = NotSet THEN "development" ELSE d

====
